---- MODULE Spec2Model ----
(***************************************************************************)
(* Super Tic-Tac-Toe rules engine (library crate `sttt`):                  *)
(*   src/src/lib.rs   STTT  { player, board, valid_boards }                *)
(*   src/src/board.rs Board { board, metaboard }, Position                 *)
(*   src/src/sttt.rs  the standalone engine STTT of the binary `sttt`      *)
(* The game object is driven by calls to STTT::play.  The calls come from  *)
(* recorded transcripts fed through the loop of src/src/bin/play.rs and    *)
(* from a bounded number of arbitrary calls of the public API.             *)
(***************************************************************************)
EXTENDS Integers, FiniteSets, Sequences, TLC

VARIABLES player, board, valid_boards, last_position, ret, arg, finished, okBy,
          moves, extra, standalone

vars == <<player, board, valid_boards, last_position, ret, arg, finished, okBy,
          moves, extra, standalone>>

(* the game object itself, without the observers of the calls made on it *)
game == <<player, board, valid_boards>>

----------------------------------------------------------------------------
(* Bounds of the exploration *)

\* number of calls that may leave the recorded transcripts
MaxExtra == 1

\* largest absolute position a caller may type (81 and above are out of range)
MaxSquare == 81

\* a call that leaves the transcripts aims at one of the first ExtraTiles tiles
\* of a small board
ExtraTiles == 2

----------------------------------------------------------------------------
\* largest square given to Board::play when it is called directly
MaxDirectSquare == 5

\* largest number given to Position::from_absolute on its own
MaxTyped == 99

----------------------------------------------------------------------------
(* Types of lib.rs / board.rs *)

\* enum Player { X, O }
Player == {"X", "O"}

\* Option<Player>::None
None == "None"

\* number of small boards, and of tiles in each
Nine == 9

\* number of tiles of the whole board
BoardSize == 81

Idx == 0 .. (Nine - 1)

\* the eight lines of a 3x3 grid (used by the properties only)
Lines == { {0,1,2}, {3,4,5}, {6,7,8}, {0,3,6}, {1,4,7}, {2,5,8}, {0,4,8}, {2,4,6} }

----------------------------------------------------------------------------
(* Position *)

\* from_absolute accepting 81
from_absolute_OffByOne(pos) ==
    IF pos > BoardSize
    THEN [ok |-> FALSE, board_idx |-> 0, tile_idx |-> 0]
    ELSE [ok |-> TRUE, board_idx |-> pos \div Nine, tile_idx |-> pos % Nine]

\* from_absolute with quotient and remainder exchanged
from_absolute_Swapped(pos) ==
    IF pos >= BoardSize
    THEN [ok |-> FALSE, board_idx |-> 0, tile_idx |-> 0]
    ELSE [ok |-> TRUE, board_idx |-> pos % Nine, tile_idx |-> pos \div Nine]

\* Position::from_absolute
from_absolute(pos) ==
    IF pos >= BoardSize
    THEN [ok |-> FALSE, board_idx |-> 0, tile_idx |-> 0]
    ELSE [ok |-> TRUE, board_idx |-> pos \div Nine, tile_idx |-> pos % Nine]

----------------------------------------------------------------------------
(* Board *)

\* Board::new
Board_new ==
    [board |-> [b \in Idx |-> [t \in Idx |-> None]],
     metaboard |-> [b \in Idx |-> None]]

\* one iteration of the row loop of Board::check_winner
RowWins(b, row) ==
    /\ b[row * 3] = b[row * 3 + 1]
    /\ b[row * 3 + 1] = b[row * 3 + 2]
    /\ b[row * 3] # None

\* one iteration of the column loop of Board::check_winner
ColWins(b, col) ==
    /\ b[col] = b[col + 3]
    /\ b[col + 3] = b[col + 6]
    /\ b[col] # None

\* the diagonal test of Board::check_winner
DiagWins(b) ==
    /\ b[4] # None
    /\ \/ (b[0] = b[4] /\ b[4] = b[8])
       \/ (b[2] = b[4] /\ b[4] = b[6])

\* check_winner scanning the rows from the bottom
check_winner_LastRow(b) ==
    IF \E row \in 0..2 : RowWins(b, row)
    THEN LET row == CHOOSE r \in 0..2 :
                        RowWins(b, r) /\ \A q \in 0..2 : q > r => ~RowWins(b, q)
         IN  b[row * 3]
    ELSE IF \E col \in 0..2 : ColWins(b, col)
    THEN LET col == CHOOSE c \in 0..2 :
                        ColWins(b, c) /\ \A q \in 0..2 : q < c => ~ColWins(b, q)
         IN  b[col]
    ELSE IF DiagWins(b) THEN b[4]
    ELSE None

\* check_winner returning board[0] for a complete column, not board[col]
check_winner_ColFirst(b) ==
    IF \E row \in 0..2 : RowWins(b, row)
    THEN LET row == CHOOSE r \in 0..2 :
                        RowWins(b, r) /\ \A q \in 0..2 : q < r => ~RowWins(b, q)
         IN  b[row * 3]
    ELSE IF \E col \in 0..2 : ColWins(b, col)
    THEN b[0]
    ELSE IF DiagWins(b) THEN b[4]
    ELSE None

\* Board::check_winner: rows, then columns, then diagonals; the first hit returns
check_winner(b) ==
    IF \E row \in 0..2 : RowWins(b, row)
    THEN LET row == CHOOSE r \in 0..2 :
                        RowWins(b, r) /\ \A q \in 0..2 : q < r => ~RowWins(b, q)
         IN  b[row * 3]
    ELSE IF \E col \in 0..2 : ColWins(b, col)
    THEN LET col == CHOOSE c \in 0..2 :
                        ColWins(b, c) /\ \A q \in 0..2 : q < c => ~ColWins(b, q)
         IN  b[col]
    ELSE IF DiagWins(b) THEN b[4]
    ELSE None

\* is_open without the test of the metaboard
is_open_HasEmptyOnly(B, board_idx) ==
    Cardinality({t \in Idx : B.board[board_idx][t] = None}) > 0

\* is_open without the test for a remaining empty square
is_open_NotWonOnly(B, board_idx) ==
    B.metaboard[board_idx] = None

\* Board::is_open
is_open(B, board_idx) ==
    /\ B.metaboard[board_idx] = None
    /\ Cardinality({t \in Idx : B.board[board_idx][t] = None}) > 0

\* Board::play with the mark written before the square is tested
Board_play_WriteFirst(B, p, position) ==
    LET board_idx == position.board_idx
        tile_idx  == position.tile_idx
        placed == [B EXCEPT !.board[board_idx][tile_idx] = p]
        board_winner == check_winner(placed.board[board_idx])
    IN
    IF B.board[board_idx][tile_idx] # None
    THEN [board |-> placed, res |-> "Occupied"]
    ELSE IF board_winner = None
    THEN [board |-> placed, res |-> "Ok"]
    ELSE IF board_winner # p
    THEN [board |-> placed, res |-> "Abort"]
    ELSE [board |-> [placed EXCEPT !.metaboard[board_idx] = p], res |-> "Ok"]

\* Board::play recording a won board at metaboard[tile_idx]
Board_play_MetaAtTile(B, p, position) ==
    LET board_idx == position.board_idx
        tile_idx  == position.tile_idx
    IN
    IF B.board[board_idx][tile_idx] # None
    THEN [board |-> B, res |-> "Occupied"]
    ELSE LET placed == [B EXCEPT !.board[board_idx][tile_idx] = p]
             board_winner == check_winner(placed.board[board_idx])
         IN  IF board_winner = None
             THEN [board |-> placed, res |-> "Ok"]
             ELSE IF board_winner # p
             THEN [board |-> placed, res |-> "Abort"]
             ELSE [board |-> [placed EXCEPT !.metaboard[tile_idx] = p],
                   res |-> "Ok"]

\* Board::play rebuilding the metaboard from scratch when a board is won
Board_play_ResetMeta(B, p, position) ==
    LET board_idx == position.board_idx
        tile_idx  == position.tile_idx
    IN
    IF B.board[board_idx][tile_idx] # None
    THEN [board |-> B, res |-> "Occupied"]
    ELSE LET placed == [B EXCEPT !.board[board_idx][tile_idx] = p]
             board_winner == check_winner(placed.board[board_idx])
         IN  IF board_winner = None
             THEN [board |-> placed, res |-> "Ok"]
             ELSE IF board_winner # p
             THEN [board |-> placed, res |-> "Abort"]
             ELSE [board |-> [placed EXCEPT
                                !.metaboard = [b \in Idx |-> IF b = board_idx
                                                             THEN p ELSE None]],
                   res |-> "Ok"]

\* Board::play without the test for an occupied square
Board_play_Overwrite(B, p, position) ==
    LET board_idx == position.board_idx
        tile_idx  == position.tile_idx
        placed == [B EXCEPT !.board[board_idx][tile_idx] = p]
        board_winner == check_winner(placed.board[board_idx])
    IN
    IF board_winner = None
    THEN [board |-> placed, res |-> "Ok"]
    ELSE IF board_winner # p
    THEN [board |-> placed, res |-> "Abort"]
    ELSE [board |-> [placed EXCEPT !.metaboard[board_idx] = p], res |-> "Ok"]

\* Board::play: res is "Ok", "Occupied" (Err) or "Abort" (assertion failure)
Board_play(B, p, position) ==
    LET board_idx == position.board_idx
        tile_idx  == position.tile_idx
    IN
    IF B.board[board_idx][tile_idx] # None
    THEN [board |-> B, res |-> "Occupied"]
    ELSE LET placed == [B EXCEPT !.board[board_idx][tile_idx] = p]
             board_winner == check_winner(placed.board[board_idx])
         IN  IF board_winner = None
             THEN [board |-> placed, res |-> "Ok"]
             ELSE IF board_winner # p
             THEN [board |-> placed, res |-> "Abort"]
             ELSE [board |-> [placed EXCEPT !.metaboard[board_idx] = p],
                   res |-> "Ok"]

----------------------------------------------------------------------------
(* STTT *)

\* STTT::next_player
next_player(p) == IF p = "X" THEN "O" ELSE "X"

\* values returned by STTT::play (Result<Status, &str>), and the abort
Ok(status, winner) == [ok |-> TRUE, status |-> status, winner |-> winner, err |-> "-"]
Err(msg) == [ok |-> FALSE, status |-> "-", winner |-> "-", err |-> msg]

NotYourTurn == "It's not your turn!"
CannotPlayBoard == "You cannot play in that board!"
NotEmpty == "That square is not empty"
OutsideBoard == "Position outside of board"
Panic == "assertion failed"

\* Step 3 of STTT::play without the diagonals of the metaboard
check_winner_metaboard_NoDiagonal(B) ==
    IF (\E row \in 0..2 : RowWins(B.metaboard, row))
       \/ (\E col \in 0..2 : ColWins(B.metaboard, col))
    THEN check_winner(B.metaboard)
    ELSE None

\* Step 3 of STTT::play: Board::check_winner(&self.board.metaboard())
check_winner_metaboard(B) == check_winner(B.metaboard)

\* Step 4 without the mirror rule: every open board is legal
next_valid_boards_AllOpen(B, next_board) ==
    {b \in Idx : is_open(B, b)}

\* Step 4 without the test that the mirrored board is open
next_valid_boards_AlwaysMirror(B, next_board) ==
    {next_board}

\* Step 4 sending the next move to the mirrored board whenever it is not won,
\* full or not
next_valid_boards_MirrorNotWon(B, next_board) ==
    IF B.metaboard[next_board] = None
    THEN {next_board}
    ELSE {b \in Idx : is_open(B, b)}

\* Step 4 of STTT::play: the boards the next move may use
next_valid_boards(B, next_board) ==
    IF is_open(B, next_board)
    THEN {next_board}
    ELSE {b \in Idx : is_open(B, b)}

\* STTT::play testing the board before the turn
STTT_play_BoardFirst(pl, B, vb, p, position) ==
    LET same == [player |-> pl, board |-> B, valid_boards |-> vb] IN
    IF position.board_idx \notin vb
    THEN [state |-> same, ret |-> Err(CannotPlayBoard)]
    ELSE IF p # pl
    THEN [state |-> same, ret |-> Err(NotYourTurn)]
    ELSE LET played == Board_play(B, pl, position) IN   \* works on self.board
         IF played.res = "Occupied"
         THEN [state |-> [same EXCEPT !.board = played.board],
               ret |-> Err(NotEmpty)]
         ELSE IF played.res = "Abort"
         THEN [state |-> [same EXCEPT !.board = played.board], ret |-> Err(Panic)]
         ELSE LET winner == check_winner_metaboard(played.board) IN
              IF winner # None
              THEN IF winner # p
                   THEN [state |-> [same EXCEPT !.board = played.board],
                         ret |-> Err(Panic)]
                   ELSE [state |-> [same EXCEPT !.board = played.board],
                         ret |-> Ok("Winner", winner)]
              ELSE LET nvb == next_valid_boards(played.board, position.tile_idx) IN
                   IF nvb = {}
                   THEN [state |-> [player |-> pl, board |-> played.board,
                                    valid_boards |-> nvb],
                         ret |-> Ok("Tie", "-")]
                   ELSE [state |-> [player |-> next_player(pl),
                                    board |-> played.board,
                                    valid_boards |-> nvb],
                         ret |-> Ok("InProgress", "-")]

\* STTT::play leaving valid_boards as it was when it returns Tie
STTT_play_TieKeepsBoards(pl, B, vb, p, position) ==
    LET same == [player |-> pl, board |-> B, valid_boards |-> vb] IN
    IF p # pl
    THEN [state |-> same, ret |-> Err(NotYourTurn)]
    ELSE IF position.board_idx \notin vb
    THEN [state |-> same, ret |-> Err(CannotPlayBoard)]
    ELSE LET played == Board_play(B, pl, position) IN   \* works on self.board
         IF played.res = "Occupied"
         THEN [state |-> [same EXCEPT !.board = played.board],
               ret |-> Err(NotEmpty)]
         ELSE IF played.res = "Abort"
         THEN [state |-> [same EXCEPT !.board = played.board], ret |-> Err(Panic)]
         ELSE LET winner == check_winner_metaboard(played.board) IN
              IF winner # None
              THEN IF winner # p
                   THEN [state |-> [same EXCEPT !.board = played.board],
                         ret |-> Err(Panic)]
                   ELSE [state |-> [same EXCEPT !.board = played.board],
                         ret |-> Ok("Winner", winner)]
              ELSE LET nvb == next_valid_boards(played.board, position.tile_idx) IN
                   IF nvb = {}
                   THEN [state |-> [player |-> pl, board |-> played.board,
                                    valid_boards |-> vb],
                         ret |-> Ok("Tie", "-")]
                   ELSE [state |-> [player |-> next_player(pl),
                                    board |-> played.board,
                                    valid_boards |-> nvb],
                         ret |-> Ok("InProgress", "-")]

\* STTT::play going on, with the player toggled, when no board is left
STTT_play_NoTie(pl, B, vb, p, position) ==
    LET same == [player |-> pl, board |-> B, valid_boards |-> vb] IN
    IF p # pl
    THEN [state |-> same, ret |-> Err(NotYourTurn)]
    ELSE IF position.board_idx \notin vb
    THEN [state |-> same, ret |-> Err(CannotPlayBoard)]
    ELSE LET played == Board_play(B, pl, position) IN   \* works on self.board
         IF played.res = "Occupied"
         THEN [state |-> [same EXCEPT !.board = played.board],
               ret |-> Err(NotEmpty)]
         ELSE IF played.res = "Abort"
         THEN [state |-> [same EXCEPT !.board = played.board], ret |-> Err(Panic)]
         ELSE LET winner == check_winner_metaboard(played.board) IN
              IF winner # None
              THEN IF winner # p
                   THEN [state |-> [same EXCEPT !.board = played.board],
                         ret |-> Err(Panic)]
                   ELSE [state |-> [same EXCEPT !.board = played.board],
                         ret |-> Ok("Winner", winner)]
              ELSE LET nvb == next_valid_boards(played.board, position.tile_idx) IN
                   [state |-> [player |-> next_player(pl),
                               board |-> played.board,
                               valid_boards |-> nvb],
                    ret |-> Ok("InProgress", "-")]

\* STTT::play on the game <<pl, B, vb>>, called with player p and a Position
STTT_play(pl, B, vb, p, position) ==
    LET same == [player |-> pl, board |-> B, valid_boards |-> vb] IN
    IF p # pl
    THEN [state |-> same, ret |-> Err(NotYourTurn)]
    ELSE IF position.board_idx \notin vb
    THEN [state |-> same, ret |-> Err(CannotPlayBoard)]
    ELSE LET played == Board_play(B, pl, position) IN   \* works on self.board
         IF played.res = "Occupied"
         THEN [state |-> [same EXCEPT !.board = played.board],
               ret |-> Err(NotEmpty)]
         ELSE IF played.res = "Abort"
         THEN [state |-> [same EXCEPT !.board = played.board], ret |-> Err(Panic)]
         ELSE LET winner == check_winner_metaboard(played.board) IN
              IF winner # None
              THEN IF winner # p
                   THEN [state |-> [same EXCEPT !.board = played.board],
                         ret |-> Err(Panic)]
                   ELSE [state |-> [same EXCEPT !.board = played.board],
                         ret |-> Ok("Winner", winner)]
              ELSE LET nvb == next_valid_boards(played.board, position.tile_idx) IN
                   IF nvb = {}
                   THEN [state |-> [player |-> pl, board |-> played.board,
                                    valid_boards |-> nvb],
                         ret |-> Ok("Tie", "-")]
                   ELSE [state |-> [player |-> next_player(pl),
                                    board |-> played.board,
                                    valid_boards |-> nvb],
                         ret |-> Ok("InProgress", "-")]

----------------------------------------------------------------------------
(* The standalone engine of sttt.rs *)

OutOfLimits == "Square out of limits"

\* STTT::new of sttt.rs
Standalone_new_game ==
    [player |-> "X",
     board |-> [b \in Idx |-> [t \in Idx |-> None]],
     metaboard |-> [b \in Idx |-> None],
     valid_boards |-> Idx]

\* a new standalone game, on which no call has returned yet
Standalone_new == [game |-> Standalone_new_game, ret |-> Err("-")]

\* STTT::next_player of sttt.rs
Standalone_next_player(S) == IF S.player = "X" THEN "O" ELSE "X"

\* STTT::is_open of sttt.rs
Standalone_is_open(S, board_idx) ==
    /\ S.metaboard[board_idx] = None
    /\ Cardinality({t \in Idx : S.board[board_idx][t] = None}) > 0

\* STTT::check_winner of sttt.rs
Standalone_check_winner(b) ==
    IF \E row \in 0..2 :
          b[row * 3] = b[row * 3 + 1] /\ b[row * 3 + 1] = b[row * 3 + 2]
             /\ b[row * 3] # None
    THEN LET row == CHOOSE r \in 0..2 :
                        /\ b[r * 3] = b[r * 3 + 1] /\ b[r * 3 + 1] = b[r * 3 + 2]
                        /\ b[r * 3] # None
                        /\ \A q \in 0..(r - 1) :
                              ~(b[q * 3] = b[q * 3 + 1] /\ b[q * 3 + 1] = b[q * 3 + 2]
                                  /\ b[q * 3] # None)
         IN  b[row * 3]
    ELSE IF \E col \in 0..2 :
               b[col] = b[col + 3] /\ b[col + 3] = b[col + 6] /\ b[col] # None
    THEN LET col == CHOOSE c \in 0..2 :
                        /\ b[c] = b[c + 3] /\ b[c + 3] = b[c + 6] /\ b[c] # None
                        /\ \A q \in 0..(c - 1) :
                              ~(b[q] = b[q + 3] /\ b[q + 3] = b[q + 6] /\ b[q] # None)
         IN  b[col]
    ELSE IF b[4] # None /\ ((b[0] = b[4] /\ b[4] = b[8]) \/ (b[2] = b[4] /\ b[4] = b[6]))
    THEN b[4]
    ELSE None

\* Step 3 of STTT::play of sttt.rs: the boards the next move may use
Standalone_next_valid_boards(S, next_board) ==
    IF Standalone_is_open(S, next_board)
    THEN {next_board}
    ELSE {b \in Idx : Standalone_is_open(S, b)}

\* STTT::play of sttt.rs computing the legal boards before it looks for a
\* winner
Standalone_play_BoardsFirst(S, p, position) ==
    IF p # S.player
    THEN [state |-> S, ret |-> Err(NotYourTurn)]
    ELSE IF ~(position < 81)
    THEN [state |-> S, ret |-> Err(OutOfLimits)]
    ELSE
    LET board_idx == position \div 9
        tile_idx  == position % 9
    IN
    IF board_idx \notin S.valid_boards
    THEN [state |-> S, ret |-> Err(CannotPlayBoard)]
    ELSE IF S.board[board_idx][tile_idx] # None
    THEN [state |-> S, ret |-> Err(NotEmpty)]
    ELSE
    LET placed == [S EXCEPT !.board[board_idx][tile_idx] = S.player]
        board_winner == Standalone_check_winner(placed.board[board_idx])
    IN
    IF board_winner # None /\ board_winner # p
    THEN [state |-> placed, ret |-> Err(Panic)]
    ELSE
    LET marked == IF board_winner # None
                  THEN [placed EXCEPT !.metaboard[board_idx] = p]
                  ELSE placed
        winner == IF board_winner # None
                  THEN Standalone_check_winner(marked.metaboard)
                  ELSE None
        nvb == Standalone_next_valid_boards(marked, position % 9)
    IN
    IF winner # None
    THEN IF winner # p
         THEN [state |-> marked, ret |-> Err(Panic)]
         ELSE [state |-> [marked EXCEPT !.valid_boards = nvb],
               ret |-> Ok("Winner", winner)]
    ELSE IF nvb = {}
         THEN [state |-> [marked EXCEPT !.valid_boards = nvb],
               ret |-> Ok("Tie", "-")]
         ELSE [state |-> [marked EXCEPT !.valid_boards = nvb,
                                        !.player = Standalone_next_player(marked)],
               ret |-> Ok("InProgress", "-")]

\* STTT::play of sttt.rs on the game S, called with player p and a u32; the
\* metaboard is looked at only when the move has won a small board
Standalone_play(S, p, position) ==
    IF p # S.player
    THEN [state |-> S, ret |-> Err(NotYourTurn)]
    ELSE IF ~(position < 81)
    THEN [state |-> S, ret |-> Err(OutOfLimits)]
    ELSE
    LET board_idx == position \div 9
        tile_idx  == position % 9
    IN
    IF board_idx \notin S.valid_boards
    THEN [state |-> S, ret |-> Err(CannotPlayBoard)]
    ELSE IF S.board[board_idx][tile_idx] # None
    THEN [state |-> S, ret |-> Err(NotEmpty)]
    ELSE
    LET placed == [S EXCEPT !.board[board_idx][tile_idx] = S.player]
        board_winner == Standalone_check_winner(placed.board[board_idx])
    IN
    IF board_winner # None /\ board_winner # p
    THEN [state |-> placed, ret |-> Err(Panic)]
    ELSE
    LET marked == IF board_winner # None
                  THEN [placed EXCEPT !.metaboard[board_idx] = p]
                  ELSE placed
        winner == IF board_winner # None
                  THEN Standalone_check_winner(marked.metaboard)
                  ELSE None
        nvb == Standalone_next_valid_boards(marked, position % 9)
    IN
    IF winner # None
    THEN IF winner # p
         THEN [state |-> marked, ret |-> Err(Panic)]
         ELSE [state |-> marked, ret |-> Ok("Winner", winner)]
    ELSE IF nvb = {}
         THEN [state |-> [marked EXCEPT !.valid_boards = nvb],
               ret |-> Ok("Tie", "-")]
         ELSE [state |-> [marked EXCEPT !.valid_boards = nvb,
                                        !.player = Standalone_next_player(marked)],
               ret |-> Ok("InProgress", "-")]

----------------------------------------------------------------------------
(* Callers *)

\* transcripts of three games: X wins; a tie with a small board that is drawn
\* and named by later moves;
\* O wins with the move that closes the last open small board
Recorded ==
    { <<0, 1, 9, 5, 47, 20, 23, 50, 49, 36, 4, 38, 22, 37, 12, 29, 21, 27, 8,
        78, 59, 46, 15>>,
      <<0, 1, 9, 8, 76, 36, 5, 47, 22, 38, 18, 3, 34, 64, 15, 58, 42, 61, 63,
        2, 26, 73, 12, 27, 4, 39, 33, 55, 51, 37, 65, 30, 35, 75, 7, 67, 74, 53,
        78, 6, 69, 66, 68, 49, 46, 45, 71>>,
      <<0, 1, 9, 3, 35, 73, 17, 79, 68, 51, 60, 61, 65, 21, 27, 4, 36, 7, 71,
        76, 38, 20, 24, 54, 52, 58, 41, 48, 31, 44, 18, 62, 13, 37, 22, 39, 19,
        40, 42, 45, 25, 43>> }

\* the loop of bin/play.rs replaying a transcript: the player on move plays
\* the next recorded square, until the game has ended or a call has left the
\* transcripts
OnRecord(p, pos) ==
    /\ finished = "no"
    /\ extra = 0
    /\ p = player
    /\ \E g \in Recorded : moves < Len(g) /\ pos = g[moves + 1]

\* any other call of the public API, by either player
OffRecord(p, pos) ==
    /\ extra < MaxExtra
    /\ pos >= BoardSize \/ pos % Nine < ExtraTiles

----------------------------------------------------------------------------
(* Specification *)

\* no Position has been built yet
NoPosition == [ok |-> FALSE, board_idx |-> 0, tile_idx |-> 0]

\* STTT::new with the loop over the boards starting at 1
Init_FromOne ==
    /\ player = "X"
    /\ board = Board_new
    /\ valid_boards = 1 .. (Nine - 1)
    /\ last_position = NoPosition
    /\ ret = Err("-")
    /\ arg = [player |-> "-", pos |-> 0]
    /\ finished = "no"
    /\ okBy = "-"
    /\ moves = 0
    /\ extra = 0
    /\ standalone = Standalone_new

\* STTT::new
Init ==
    /\ player = "X"
    /\ board = Board_new
    /\ valid_boards = Idx
    /\ last_position = NoPosition
    /\ ret = Err("-")
    /\ arg = [player |-> "-", pos |-> 0]
    /\ finished = "no"
    /\ okBy = "-"
    /\ moves = 0
    /\ extra = 0
    /\ standalone = Standalone_new

\* the observers of a call with arguments (p, pos) that returned r
Observe(p, pos, r) ==
    /\ ret' = r
    /\ arg' = [player |-> p, pos |-> pos]
    /\ last_position' = from_absolute(pos)
    /\ finished' = IF finished = "no" /\ r.ok /\ r.status \in {"Winner", "Tie"}
                   THEN r.status ELSE finished
    /\ okBy' = IF r.ok THEN p ELSE okBy
    /\ moves' = IF r.ok THEN moves + 1 ELSE moves
    /\ extra' = IF OnRecord(p, pos) THEN extra ELSE extra + 1

\* game.play(p, Position::from_absolute(pos).unwrap())
Play(p, pos) ==
    /\ from_absolute(pos).ok
    /\ OnRecord(p, pos) \/ OffRecord(p, pos)
    /\ LET r == STTT_play(player, board, valid_boards, p, from_absolute(pos)) IN
       /\ player' = r.state.player
       /\ board' = r.state.board
       /\ valid_boards' = r.state.valid_boards
       /\ Observe(p, pos, r.ret)
    /\ UNCHANGED standalone

\* Position::from_absolute(pos) fails: the game is not called (bin/play.rs)
RejectPosition(p, pos) ==
    /\ ~from_absolute(pos).ok
    /\ OffRecord(p, pos)
    /\ UNCHANGED game
    /\ Observe(p, pos, Err(OutsideBoard))
    /\ UNCHANGED standalone

Next ==
    \E p \in Player : \E pos \in 0..MaxSquare :
        \/ Play(p, pos)
        \/ RejectPosition(p, pos)

Spec == Init /\ [][Next]_vars

----------------------------------------------------------------------------
(* Board::play called directly, without a game around it *)

\* board.play(p, Position::from_absolute(pos).unwrap()) on a bare Board; a
\* failed assertion ends the process
BoardPlay(p, pos) ==
    /\ ret.err # Panic
    /\ from_absolute(pos).ok
    /\ LET r == Board_play(board, p, from_absolute(pos)) IN
       /\ board' = r.board
       /\ ret' = IF r.res = "Ok" THEN Ok("-", "-")
                 ELSE IF r.res = "Occupied" THEN Err(NotEmpty)
                 ELSE Err(Panic)
    /\ arg' = [player |-> p, pos |-> pos]
    /\ last_position' = from_absolute(pos)
    /\ UNCHANGED <<player, valid_boards, finished, okBy, moves, extra, standalone>>

NextBoard == \E p \in Player : \E pos \in 0..MaxDirectSquare : BoardPlay(p, pos)

SpecBoard == Init /\ [][NextBoard]_vars

----------------------------------------------------------------------------
(* Position::from_absolute on its own *)

\* a number has been typed (bin/play.rs, `square`)
InitTyped ==
    /\ player = "X"
    /\ board = Board_new
    /\ valid_boards = Idx
    /\ last_position = NoPosition
    /\ ret = Err("-")
    /\ arg \in {[player |-> "-", pos |-> n] : n \in 0..MaxTyped}
    /\ finished = "no"
    /\ okBy = "-"
    /\ moves = 0
    /\ extra = 0
    /\ standalone = Standalone_new

\* Position::from_absolute(square)
FromAbsolute ==
    /\ ret.err = "-"
    /\ last_position' = from_absolute(arg.pos)
    /\ ret' = IF from_absolute(arg.pos).ok THEN Ok("-", "-") ELSE Err(OutsideBoard)
    /\ UNCHANGED <<player, board, valid_boards, arg, finished, okBy, moves, extra,
                   standalone>>

SpecPosition == InitTyped /\ [][FromAbsolute]_vars

----------------------------------------------------------------------------
(* Board::check_winner on its own *)

\* all arrays [Option<Player>; 9]
Grids == [Idx -> Player \cup {None}]

\* small board 0 holds an arbitrary array
InitGrid ==
    /\ player = "X"
    /\ board \in {[Board_new EXCEPT !.board[0] = g] : g \in Grids}
    /\ valid_boards = Idx
    /\ last_position = NoPosition
    /\ ret = Err("-")
    /\ arg = [player |-> "-", pos |-> 0]
    /\ finished = "no"
    /\ okBy = "-"
    /\ moves = 0
    /\ extra = 0
    /\ standalone = Standalone_new

\* Board::check_winner(&board[0]); the mark found is kept in ret.winner
CheckWinner ==
    /\ ret.err = "-"
    /\ ret' = Ok("-", check_winner(board.board[0]))
    /\ UNCHANGED <<player, board, valid_boards, last_position, arg, finished, okBy,
                   moves, extra, standalone>>

SpecChecker == InitGrid /\ [][CheckWinner]_vars

----------------------------------------------------------------------------
(* A game played to its end: the loop of bin/play.rs *)

\* the empty squares of the legal boards, as the display shows them
FreeSquares ==
    {c[1] * Nine + c[2] :
        c \in {d \in valid_boards \X Idx : board.board[d[1]][d[2]] = None}}

\* the player on move leaves the transcripts for good and types the first
\* free square
Resume ==
    /\ finished = "no"
    /\ FreeSquares # {}
    /\ \E pos \in {s \in FreeSquares : \A q \in FreeSquares : s <= q} :
       \E r \in {STTT_play(player, board, valid_boards, player, from_absolute(pos))} :
           /\ player' = r.state.player
           /\ board' = r.state.board
           /\ valid_boards' = r.state.valid_boards
           /\ ret' = r.ret
           /\ arg' = [player |-> player, pos |-> pos]
           /\ last_position' = from_absolute(pos)
           /\ finished' = IF r.ret.ok /\ r.ret.status \in {"Winner", "Tie"}
                          THEN r.ret.status ELSE finished
           /\ okBy' = IF r.ret.ok THEN player ELSE okBy
           /\ moves' = IF r.ret.ok THEN moves + 1 ELSE moves
           /\ extra' = MaxExtra
    /\ UNCHANGED standalone

\* game.play(game.player(), pos): the loop calls for the player on move
NextGame ==
    \/ \E pos \in 0 .. MaxSquare :
          \/ Play(player, pos)
          \/ RejectPosition(player, pos)
    \/ Resume

\* an accepted move in a game that has not ended and has a free square in a
\* legal board
AcceptedMove ==
    /\ finished = "no"
    /\ FreeSquares # {}
    /\ moves' = moves + 1

\* the players keep making accepted moves as long as the game has not ended
SpecGame == Init /\ [][NextGame]_vars /\ WF_moves(AcceptedMove)

----------------------------------------------------------------------------
(* The same calls given to a game of each engine *)

\* game.play(p, Position::from_absolute(pos).unwrap()) on the library game
\* and play(p, pos) on the standalone game; an engine that has aborted takes
\* no further call
PairPlay(p, pos) ==
    /\ ret.err # Panic /\ standalone.ret.err # Panic
    /\ from_absolute(pos).ok
    /\ OnRecord(p, pos) \/ OffRecord(p, pos)
    /\ LET r == STTT_play(player, board, valid_boards, p, from_absolute(pos))
           s == Standalone_play(standalone.game, p, pos)
       IN  /\ player' = r.state.player
           /\ board' = r.state.board
           /\ valid_boards' = r.state.valid_boards
           /\ Observe(p, pos, r.ret)
           /\ standalone' = [game |-> s.state, ret |-> s.ret]

\* a square outside the board: Position::from_absolute fails and the library
\* game is not called, the standalone game is
PairReject(p, pos) ==
    /\ ret.err # Panic /\ standalone.ret.err # Panic
    /\ ~from_absolute(pos).ok
    /\ OffRecord(p, pos)
    /\ UNCHANGED game
    /\ Observe(p, pos, Err(OutsideBoard))
    /\ LET s == Standalone_play(standalone.game, p, pos)
       IN  standalone' = [game |-> s.state, ret |-> s.ret]

NextPair ==
    \E p \in Player : \E pos \in 0..MaxSquare :
        \/ PairPlay(p, pos)
        \/ PairReject(p, pos)

SpecPair == Init /\ [][NextPair]_vars

----------------------------------------------------------------------------
(* Vocabulary of the properties *)

Opponent(p) == CHOOSE q \in Player : q # p

\* player p holds a complete line of the 3x3 grid b
LineOf(b, p) == \E l \in Lines : \A i \in l : b[i] = p

HasLine(b) == \E p \in Player : LineOf(b, p)

\* small board b is playable in the current state
Playable(b) ==
    /\ board.metaboard[b] = None
    /\ \E t \in Idx : board.board[b][t] = None

\* the cell addressed by the last call
ArgBoard == arg.pos \div Nine
ArgTile == arg.pos % Nine

ReturnedErrors == {NotYourTurn, CannotPlayBoard, NotEmpty, OutsideBoard}

----------------------------------------------------------------------------
(* Properties *)

\* C1: once a call has returned Winner or Tie, no later call returns Ok and
\* no later call changes the board, the metaboard, the player on move or the
\* legal-board set.
C1_TerminalRejectsEveryCall ==
    [][finished # "no" => (~ret'.ok /\ game' = game)]_vars

\* C2: a call that returns an error (wrong turn, illegal board, occupied
\* cell, position out of range) leaves the cells, the metaboard, the player
\* on move and the legal-board set as they were.
C2_ErrorLeavesGameUnchanged ==
    [][(~ret'.ok /\ ret'.err \in ReturnedErrors) => game' = game]_vars

\* C2 witness: an occupied-cell error was returned in a game under way
C2_Witness ==
    /\ ~ret.ok /\ ret.err = NotEmpty
    /\ moves > 2

\* C3: after an accepted call at p that does not win the game, the
\* legal-board set is {p % 9} if that small board is playable after the move,
\* and else the set of all small boards playable after the move; from a new
\* game, X at 0 and O at 1 leave X on move with square 9 free and legal.
C3_MirrorRule ==
    /\ (ret.ok /\ ret.status # "Winner") =>
          valid_boards = IF Playable(ArgTile) THEN {ArgTile}
                         ELSE {b \in Idx : Playable(b)}
    /\ (moves = 0) => (player = "X" /\ 0 \in valid_boards)
    /\ (moves = 1 /\ ret.ok /\ arg.pos = 0) =>
          (player = "O" /\ valid_boards = {0} /\ board.board[0][1] = None)
    /\ (moves = 2 /\ ret.ok /\ arg.pos = 1 /\ board.board[0][0] = "X") =>
          (player = "X" /\ valid_boards = {1} /\ board.board[1][0] = None)

\* C3 witness: in a game opened by X 0, O 1, X 9 a move has sent the opponent
\* to a closed small board, so several boards are legal
C3_Witness ==
    /\ board.board[0][0] = "X" /\ board.board[0][1] = "O" /\ board.board[1][0] = "X"
    /\ ret.ok /\ ret.status = "InProgress"
    /\ ~Playable(ArgTile)
    /\ Cardinality(valid_boards) > 1

\* C4: the players of the successful calls alternate X, O, X, O, ...,
\* beginning with X.
C4_SuccessfulCallsAlternate ==
    [][moves' # moves =>
          (okBy' # okBy /\ (okBy = "-" => okBy' = "X"))]_vars

\* C5: after every successful call the player on move is the opponent of the
\* player who made the call.
C5_PlayerSwapsOnEveryOk ==
    ret.ok => player = Opponent(arg.player)

\* C6: an accepted call returns Winner(P) iff the metaboard holds a complete
\* line after the placement; then P is the caller and holds that line, also
\* when the move leaves no playable board.
C6_WinnerIffMetaboardLine ==
    ret.ok =>
        /\ (ret.status = "Winner") <=> HasLine(board.metaboard)
        /\ (ret.status = "Winner") =>
              (ret.winner = arg.player /\ LineOf(board.metaboard, arg.player))

\* C6 witness: a winning move that leaves no playable board
C6_Witness ==
    /\ ret.ok /\ ret.status = "Winner"
    /\ \A b \in Idx : ~Playable(b)

\* C7: an accepted call that does not win returns Tie iff the legal-board set
\* it computed is empty, i.e. iff no small board is playable; else it returns
\* InProgress and the player on move is toggled.  The legal-board set is
\* empty only if Tie has been returned.
C7_TieIffNoLegalBoard ==
    /\ (ret.ok /\ ret.status # "Winner") =>
          /\ (ret.status = "Tie") <=> (valid_boards = {})
          /\ (ret.status = "Tie") <=> (\A b \in Idx : ~Playable(b))
          /\ (ret.status # "Tie") =>
                (ret.status = "InProgress" /\ player = Opponent(arg.player))
    /\ (valid_boards = {}) => (finished = "Tie")

\* C7 witness: Tie was returned with a small board filled without a line
C7_Witness ==
    /\ ret.ok /\ ret.status = "Tie"
    /\ \E b \in Idx : board.metaboard[b] = None

\* C8 (as stated): in every reachable state, also after Winner or Tie, every
\* board of the legal-board set is playable.
C8_ValidBoardsPlayable ==
    \A b \in valid_boards : Playable(b)

\* C8 (amended): as long as no call has returned Winner, every board of the
\* legal-board set is playable.
C8_ValidBoardsPlayableUnlessWon ==
    (finished # "Winner") => \A b \in valid_boards : Playable(b)

\* C8 witness: a free choice among the open boards while others are won
C8_Witness ==
    /\ finished = "no"
    /\ ret.ok /\ ~Playable(ArgTile)
    /\ Cardinality(valid_boards) > 1
    /\ valid_boards = {b \in Idx : board.metaboard[b] = None}

\* C9: once a small board is won, no later call writes a mark into it.
C9_WonBoardNeverWritten ==
    [][\A b \in Idx :
          board.metaboard[b] # None => board'.board[b] = board.board[b]]_vars

\* C10: an accepted call by P at p changes exactly one cell, cell p % 9 of
\* small board p / 9, from empty to P; no occupied cell is ever emptied or
\* given to the other player.
C10_ExactlyOneCellWritten ==
    [][/\ ret'.ok =>
            /\ board.board[arg'.pos \div Nine][arg'.pos % Nine] = None
            /\ board'.board[arg'.pos \div Nine][arg'.pos % Nine] = arg'.player
            /\ \A b \in Idx \ {arg'.pos \div Nine} :
                  board'.board[b] = board.board[b]
            /\ \A t \in Idx \ {arg'.pos % Nine} :
                  board'.board[arg'.pos \div Nine][t]
                     = board.board[arg'.pos \div Nine][t]
       /\ \A b \in Idx :
             \/ board'.board[b] = board.board[b]
             \/ \A t \in Idx :
                   board.board[b][t] # None =>
                       board'.board[b][t] = board.board[b][t]
      ]_vars

\* C10 witness: O has just placed a mark in a small board other than board 0
C10_Witness ==
    /\ ret.ok /\ arg.player = "O" /\ ArgBoard > 0
    /\ board.board[ArgBoard][ArgTile] = "O"

\* C11: metaboard cell b holds P iff small board b holds a complete line of
\* P; a placement that completes a line in board b sets metaboard cell b to
\* the placing player and leaves the other eight cells, a placement that
\* completes no line changes no metaboard cell.
C11_MetaboardMirrorsLines ==
    /\ [](\A b \in Idx : \A p \in Player :
             (board.metaboard[b] = p) <=> LineOf(board.board[b], p))
    /\ [][ret'.ok =>
            LET b == arg'.pos \div Nine IN
            /\ \A c \in Idx \ {b} : board'.metaboard[c] = board.metaboard[c]
            /\ IF ~HasLine(board.board[b]) /\ HasLine(board'.board[b])
               THEN board'.metaboard[b] = arg'.player
               ELSE board'.metaboard[b] = board.metaboard[b]
       ]_vars

\* C11 witness: O has just completed a line in a small board other than the
\* one its tile index names
C11_Witness ==
    /\ ret.ok /\ arg.player = "O" /\ ArgBoard # ArgTile
    /\ LineOf(board.board[ArgBoard], "O")
    /\ board.board[ArgBoard][ArgTile] = "O"
    /\ \E l \in Lines : ArgTile \in l /\ \A i \in l : board.board[ArgBoard][i] = "O"

\* C12: a metaboard cell changes at most once, from empty to a player, and
\* then keeps that player.
C12_MetaboardCellSetOnce ==
    [][\A b \in Idx :
          /\ board.metaboard[b] # None => board'.metaboard[b] = board.metaboard[b]
          /\ board'.metaboard[b] # board.metaboard[b] =>
                (board.metaboard[b] = None /\ board'.metaboard[b] \in Player)
      ]_vars

\* C12 witness: both players have won small boards and the game goes on
C12_Witness ==
    /\ \E b \in Idx : board.metaboard[b] = "X"
    /\ \E b \in Idx : board.metaboard[b] = "O"
    /\ ret.ok /\ ret.status = "InProgress"
    /\ board.metaboard[ArgBoard] # None

\* C13: no assertion fails and no call aborts: the winner found in the small
\* board after a placement, and the winner found on the metaboard, is the
\* caller; is_open gets indices below 9; every call returns Ok or Err.
C13_NoAssertionFails ==
    /\ ret.err # Panic
    /\ (arg.player \in Player) => (ret.ok \/ ret.err \in ReturnedErrors)
    /\ ret.ok =>
          /\ check_winner(board.board[ArgBoard]) \in {None, arg.player}
          /\ check_winner(board.metaboard) \in {None, arg.player}
          /\ ArgTile < Nine
          /\ valid_boards \subseteq Idx

\* C13 witness: a player has won a small board that holds marks of the
\* opponent, and the metaboard already holds boards of both
C13_Witness ==
    /\ ret.ok /\ ret.status = "InProgress"
    /\ check_winner(board.board[ArgBoard]) = arg.player
    /\ board.metaboard[ArgBoard] = arg.player
    /\ \E t \in Idx : board.board[ArgBoard][t] = Opponent(arg.player)
    /\ \E b \in Idx : board.metaboard[b] = Opponent(arg.player)

\* C14: Board::play called directly has exactly two outcomes: on an occupied
\* cell it fails with the cell-occupied error and leaves the board unchanged,
\* otherwise it writes the mark and returns Ok; it never aborts.
C14_BoardPlayTwoOutcomes ==
    [][LET b == arg'.pos \div Nine
           t == arg'.pos % Nine
       IN  IF board.board[b][t] # None
           THEN ret'.err = NotEmpty /\ board' = board
           ELSE ret'.ok /\ board'.board[b][t] = arg'.player
      ]_vars

\* the lines of a 3x3 array in the scan order of the claims: rows 0 to 2,
\* columns 0 to 2, diagonal 0-4-8, diagonal 2-4-6
ScanOrder ==
    << <<0,1,2>>, <<3,4,5>>, <<6,7,8>>, <<0,3,6>>, <<1,4,7>>, <<2,5,8>>,
       <<0,4,8>>, <<2,4,6>> >>

\* line number i of the scan order is complete in the array g
Complete(g, i) ==
    LET l == ScanOrder[i] IN
    g[l[1]] # None /\ g[l[1]] = g[l[2]] /\ g[l[2]] = g[l[3]]

\* the mark of the first complete line of g in the scan order, or none
FirstLineMark(g) ==
    IF \E i \in 1..8 : Complete(g, i)
    THEN LET i == CHOOSE k \in 1..8 :
                      Complete(g, k) /\ \A q \in 1..(k - 1) : ~Complete(g, q)
         IN  g[ScanOrder[i][1]]
    ELSE None

\* C18: for every 3x3 array over {empty, X, O}, check_winner returns the mark
\* of the first complete line in the order rows, columns, diagonal 0-4-8,
\* diagonal 2-4-6, and none iff no line is complete; the metaboard is scanned
\* by the same function.
C18_CheckWinnerFirstLine ==
    (ret.ok /\ arg.player = "-") =>
        /\ ret.winner = FirstLineMark(board.board[0])
        /\ (ret.winner = None) <=> ~HasLine(board.board[0])
        /\ check_winner_metaboard([board EXCEPT !.metaboard = board.board[0]])
              = ret.winner

\* C18 witness: row 0 is X, row 1 is O, and X is returned
C18_Witness ==
    /\ ret.ok /\ arg.player = "-"
    /\ \A t \in {0, 1, 2} : board.board[0][t] = "X"
    /\ \A t \in {3, 4, 5} : board.board[0][t] = "O"
    /\ ret.winner = "X"

\* C19: from_absolute(p) succeeds for p in 0..80 and fails for p >= 81; an
\* accepted p gives board_idx = p / 9 and tile_idx = p % 9, both in 0..8,
\* with board_idx * 9 + tile_idx = p, and no other p gives the same pair;
\* 42 gives board 4, tile 6.
C19_FromAbsoluteDecomposes ==
    (ret.ok \/ ret.err # "-") =>
        /\ last_position.ok <=> (arg.pos <= 80)
        /\ ret.ok <=> last_position.ok
        /\ last_position.ok =>
              /\ last_position.board_idx = arg.pos \div 9
              /\ last_position.tile_idx = arg.pos % 9
              /\ last_position.board_idx \in 0..8
              /\ last_position.tile_idx \in 0..8
              /\ last_position.board_idx * 9 + last_position.tile_idx = arg.pos
              /\ \A q \in 0..80 :
                    (q # arg.pos) =>
                        \/ from_absolute(q).board_idx # last_position.board_idx
                        \/ from_absolute(q).tile_idx # last_position.tile_idx
        /\ (arg.pos = 42) =>
              (last_position.board_idx = 4 /\ last_position.tile_idx = 6)

\* C19 witness: 42 has been decomposed
C19_Witness ==
    /\ ret.ok /\ arg.pos = 42
    /\ last_position.ok /\ last_position.board_idx = 4

\* C15: STTT::play reports the first violated check in the order wrong turn,
\* illegal board, occupied cell: a call by the player not on move fails with
\* the wrong-turn error whatever the position, a call by the player on move
\* into a board outside the legal set fails with the illegal-board error
\* whether or not the cell is occupied; the three errors differ.
C15_FirstViolatedCheckReported ==
    [][(arg'.player \in Player /\ arg'.pos < BoardSize) =>
          LET b == arg'.pos \div Nine
              t == arg'.pos % Nine
          IN
          /\ (arg'.player # player) => (~ret'.ok /\ ret'.err = NotYourTurn)
          /\ (arg'.player = player /\ b \notin valid_boards) =>
                (~ret'.ok /\ ret'.err = CannotPlayBoard)
          /\ (arg'.player = player /\ b \in valid_boards
                /\ board.board[b][t] # None) =>
                (~ret'.ok /\ ret'.err = NotEmpty)
          /\ Cardinality({NotYourTurn, CannotPlayBoard, NotEmpty}) = 3
      ]_vars

\* C15 witness: the player on move was refused an occupied cell of a board
\* outside the legal set, with the illegal-board error
C15_Witness ==
    /\ ~ret.ok /\ ret.err = CannotPlayBoard
    /\ arg.player = player
    /\ ArgBoard \notin valid_boards
    /\ board.board[ArgBoard][ArgTile] # None

\* C16: a new game has X on move, 81 empty cells, 9 empty metaboard cells and
\* all nine boards legal; the first accepted move is by X, and X is accepted
\* in any small board.
C16_NewGame ==
    /\ []((moves = 0) =>
             /\ player = "X"
             /\ \A b \in Idx : \A t \in Idx : board.board[b][t] = None
             /\ \A b \in Idx : board.metaboard[b] = None
             /\ valid_boards = 0..8)
    /\ []((moves = 1 /\ ret.ok) => arg.player = "X")
    /\ [][(moves = 0 /\ arg'.pos < BoardSize) =>
             (ret'.ok <=> arg'.player = "X")]_vars

\* C16 witness: the first move was accepted in small board 8
C16_Witness ==
    /\ moves = 1 /\ ret.ok
    /\ arg.player = "X" /\ ArgBoard = 8

\* small board b is drawn: nine marks and no line
Drawn(b) ==
    /\ \A t \in Idx : board.board[b][t] # None
    /\ ~HasLine(board.board[b])

\* C17: is_open(b) is false exactly when small board b is won or drawn; a
\* board is open before the placement that completes a line in it and not
\* open after.
C17_IsOpenIffNotWonNorDrawn ==
    /\ [](\A b \in Idx :
             is_open(board, b) <=> ~(board.metaboard[b] \in Player \/ Drawn(b)))
    /\ [][\A b \in Idx :
             \/ board'.board[b] = board.board[b]
             \/ (~HasLine(board.board[b]) /\ HasLine(board'.board[b])) =>
                   (is_open(board, b) /\ ~is_open(board', b))]_vars

\* C17 witness: a drawn small board, closed, beside a won board with empty
\* cells, closed as well, while the game is under way
C17_Witness ==
    /\ finished = "no"
    /\ \E b \in Idx : Drawn(b) /\ ~is_open(board, b)
    /\ \E b \in Idx :
          /\ board.metaboard[b] \in Player
          /\ \E t \in Idx : board.board[b][t] = None
          /\ ~is_open(board, b)

\* C20: after Tie every later call, by either player at any position, returns
\* an error and leaves the board, the metaboard, the player on move and the
\* empty legal-board set unchanged.
C20_TieRejectsEveryCall ==
    /\ []((finished = "Tie") => valid_boards = {})
    /\ [][(finished = "Tie") => (~ret'.ok /\ game' = game)]_vars

\* C20 witness: after Tie the player on move was refused an empty cell
C20_Witness ==
    /\ finished = "Tie"
    /\ ~ret.ok /\ ret.err = CannotPlayBoard
    /\ arg.player = player
    /\ board.board[ArgBoard][ArgTile] = None
\* C21: as long as no call has returned Winner or Tie, the legal-board set is
\* not empty and every board in it has an empty cell, so the player on move
\* has a position that STTT::play accepts.
C21_NoDeadEndInProgress ==
    (finished = "no") =>
        /\ valid_boards # {}
        /\ \A b \in valid_boards : \E t \in Idx : board.board[b][t] = None
        /\ \E b \in valid_boards : \E t \in Idx :
              STTT_play(player, board, valid_boards, player,
                        from_absolute(b * Nine + t)).ret.ok

\* C21 witness: the game is under way and the last move has named a small
\* board filled without a line, so the next move is free among the open ones
C21_Witness ==
    /\ finished = "no"
    /\ ret.ok /\ ret.status = "InProgress"
    /\ Drawn(ArgTile) /\ board.metaboard[ArgTile] = None
    /\ valid_boards # {} /\ ArgTile \notin valid_boards
\* the number of occupied cells
Occupied ==
    Cardinality({c \in Idx \X Idx : board.board[c[1]][c[2]] # None})

\* C22: the number of occupied cells is the number of successful calls, so
\* there are at most 81 of them, and a game in which accepted moves keep
\* being made gets Winner or Tie.
C22_GameTerminates ==
    /\ [](moves = Occupied /\ moves <= BoardSize)
    /\ []((finished = "no") =>
             \E s \in FreeSquares :
                STTT_play(player, board, valid_boards, player,
                          from_absolute(s)).ret.ok)
    /\ <>(finished # "no")

\* C22 witness: a game that left the transcripts has ended in a tie after
\* more than sixty accepted moves
C22_Witness ==
    /\ finished = "Tie" /\ ret.ok /\ ret.status = "Tie"
    /\ extra > 0
    /\ moves > 60 /\ moves = Occupied
\* the game of the library engine, laid out as the struct of sttt.rs
LibraryGame ==
    [player |-> player, board |-> board.board, metaboard |-> board.metaboard,
     valid_boards |-> valid_boards]

\* the two games are equal, and the last call, if it named a square of the
\* board, was accepted or rejected by both with the same Status
EnginesAgree ==
    /\ standalone.game = LibraryGame
    /\ (arg.player \in Player /\ arg.pos < BoardSize) =>
          /\ standalone.ret.ok = ret.ok
          /\ standalone.ret.status = ret.status
          /\ standalone.ret.winner = ret.winner

\* C23: for the same calls (player, position in 0..80) on a new game of
\* each, up to and including the first call that returns Winner or Tie, the
\* standalone engine and the library engine accept and reject the same calls,
\* return the same Status, and have equal cells, metaboard, player on move and
\* legal-board set after every call.
C23_EnginesAgree ==
    /\ []((finished = "no") => EnginesAgree)
    /\ [][(finished = "no") => EnginesAgree']_vars

\* C23 witness: the first Winner has just been returned, by both engines,
\* with a move that won a small board while others were already won
C23_Witness ==
    /\ finished = "Winner" /\ extra = 0
    /\ ret.ok /\ ret.status = "Winner"
    /\ standalone.ret.ok /\ standalone.ret.status = "Winner"
    /\ standalone.game.metaboard[ArgBoard] = arg.player
    /\ standalone.game = LibraryGame

====
